---- MODULE Spec2Model ----
(***************************************************************************)
(* Letter<T>: a piece of content together with a Signature, and its        *)
(* validation against a Validator (src/src/letter.rs).                     *)
(*                                                                         *)
(* The edcert crate (ed25519, Signature, Certificate, Validator, Revoker)  *)
(* is an external collaborator of letter.rs.  It is modelled symbolically: *)
(* a signature hash is the pair (signing key, signed bytes), so a hash     *)
(* verifies under a public key exactly when that keypair produced it over  *)
(* exactly those bytes.                                                    *)
(***************************************************************************)
EXTENDS Naturals, Sequences, FiniteSets, TLC

\* Longest certificate chain (number of certificates between the root key
\* and the letter) the model builds.
MaxChain == 2

\* Keypairs.  A keypair is named by one identifier; the identifier stands for
\* the public key where a public key is expected, and for the private key
\* where a private key is expected.
Keys == {"k1", "k2"}

\* The strings used as plain content (the two of the tests).
Strings == {"hello world", "world hello"}

---------------------------------------------------------------------------
(* What the last operation was and what it returned *)
Returned(op, val) == [op |-> op, val |-> val]

(* Option<T> *)
None == [tag |-> "None"]
Some(x) == [tag |-> "Some", val |-> x]
unwrap(o) == IF o.tag = "Some" THEN o.val ELSE [tag |-> "panic"]

(* Result values *)
Ok == [tag |-> "Ok"]
OkWith(x) == [tag |-> "Ok", val |-> x]
Err(e) == [tag |-> "Err", err |-> e]
SignatureInvalid == "SignatureInvalid"
ParentInvalid == "ParentInvalid"
\* with_certificate's error value is the unit value: Err(())
SigningFailed == "()"
Panic == [tag |-> "panic"]

---------------------------------------------------------------------------
(* ed25519, symbolically *)
ed25519_sign(bytes, private_key) == [signer |-> private_key, msg |-> bytes]
ed25519_verify(bytes, hash, public_key) ==
    hash.signer = public_key /\ hash.msg = bytes

(* Signature *)
Signature_new(hash) == [hash |-> hash, parent |-> None]
Signature_with_parent(parent, hash) == [hash |-> hash, parent |-> Some(parent)]
is_signed_by_master(sig) == sig.parent = None

(* Certificate *)
CertBytes(pk) == <<"cert", pk>>
Certificate_sign(cert, bytes) ==
    IF cert.priv THEN Some(ed25519_sign(bytes, cert.pk)) ELSE None
Certificate_verify(cert, bytes, hash) == ed25519_verify(bytes, hash, cert.pk)

\* The certificates with a chain of exactly n certificates up to the root.
\* A certificate is signed by a master key, or carries a parent certificate
\* that holds a private key; the hash is made by any key, so that links that
\* do not verify exist as well.
RECURSIVE CertsAt(_)
CertsAt(n) ==
    IF n = 1
    THEN { [pk |-> k, priv |-> b,
            signature |-> Signature_new(ed25519_sign(CertBytes(k), m))] :
              k \in Keys, b \in BOOLEAN, m \in Keys }
    ELSE { [pk |-> k, priv |-> b,
            signature |-> Signature_with_parent(p, ed25519_sign(CertBytes(k), s))] :
              k \in Keys, b \in BOOLEAN, s \in Keys,
              p \in {q \in CertsAt(n - 1) : q.priv} }
Certificates == UNION { CertsAt(n) : n \in 1..MaxChain }

(* Validator: a root validator with a trusted master public key and a     *)
(* revoker that holds the set of revoked certificate keys.                 *)
Revokers == SUBSET Keys
is_signature_valid(cv, bytes, hash) == ed25519_verify(bytes, hash, cv.mpk)

RECURSIVE is_valid(_, _)
is_valid(cv, cert) ==
    /\ cert.pk \notin cv.revoked
    /\ IF is_signed_by_master(cert.signature)
       THEN is_signature_valid(cv, CertBytes(cert.pk), cert.signature.hash)
       ELSE /\ is_valid(cv, unwrap(cert.signature.parent))
            /\ Certificate_verify(unwrap(cert.signature.parent),
                                  CertBytes(cert.pk), cert.signature.hash)

---------------------------------------------------------------------------
(* Letter<T> *)
IsLetter(c) == "signature" \in DOMAIN c

new(content, signature) == [content |-> content, signature |-> signature]

\* T::fingerprint for T = &str (its bytes) and for T = Letter<U>
RECURSIVE fingerprint(_)
StrFingerprint(c) == <<c.str>>
fingerprint(self) ==
    IF IsLetter(self.content)
    THEN fingerprint(self.content)
    ELSE StrFingerprint(self.content)
ContentFingerprint(c) == IF IsLetter(c) THEN fingerprint(c) ELSE StrFingerprint(c)

\* Faulty variant: signs the empty byte string instead of the fingerprint.
with_private_key_SignsNothing(content, private_key) ==
    new(content, Signature_new(ed25519_sign(<<>>, private_key)))

with_private_key(content, private_key) ==
    new(content,
        Signature_new(ed25519_sign(ContentFingerprint(content), private_key)))

\* Faulty variant: the signature does not record the certificate as its parent.
with_certificate_NoParent(content, cert) ==
    LET res == Certificate_sign(cert, ContentFingerprint(content))
    IN  IF res.tag = "Some"
        THEN OkWith(new(content, Signature_new(res.val)))
        ELSE Err(SigningFailed)

\* Faulty variant: a certificate without a private key still yields a Letter, with
\* a hash nobody made.
with_certificate_SignAnyway(content, cert) ==
    LET res == Certificate_sign(cert, ContentFingerprint(content))
        hash == IF res.tag = "Some" THEN res.val
                ELSE [signer |-> "nobody", msg |-> <<>>]
    IN  OkWith(new(content, Signature_with_parent(cert, hash)))

with_certificate(content, cert) ==
    LET res == Certificate_sign(cert, ContentFingerprint(content))
    IN  IF res.tag = "Some"
        THEN OkWith(new(content, Signature_with_parent(cert, res.val)))
        ELSE Err(SigningFailed)

get(self) == self.content

\* Faulty variant: dereferences through a nested Letter to the innermost content.
deref_Through(self) ==
    IF IsLetter(self.content) THEN get(self.content) ELSE get(self)

deref(self) == get(self)

\* Faulty variant: the parent certificate is not validated.
self_validate_SkipParentCheck(self, cv) ==
    LET sig == self.signature
        bytes == ContentFingerprint(self.content)
    IN  IF is_signed_by_master(sig)
        THEN [val |-> IF is_signature_valid(cv, bytes, sig.hash)
                      THEN Ok ELSE Err(SignatureInvalid),
              calls |-> <<"is_signature_valid">>]
        ELSE [val |-> IF Certificate_verify(unwrap(sig.parent), bytes, sig.hash)
                      THEN Ok ELSE Err(SignatureInvalid),
              calls |-> <<"verify">>]

\* Faulty variant: the parent's signature over the content is not verified.
self_validate_SkipVerify(self, cv) ==
    LET sig == self.signature
        bytes == ContentFingerprint(self.content)
    IN  IF is_signed_by_master(sig)
        THEN [val |-> IF is_signature_valid(cv, bytes, sig.hash)
                      THEN Ok ELSE Err(SignatureInvalid),
              calls |-> <<"is_signature_valid">>]
        ELSE [val |-> IF is_valid(cv, unwrap(sig.parent))
                      THEN Ok ELSE Err(ParentInvalid),
              calls |-> <<"is_valid">>]

\* Faulty variant: the parent's signature is verified before the parent is validated.
self_validate_VerifyFirst(self, cv) ==
    LET sig == self.signature
        bytes == ContentFingerprint(self.content)
    IN  IF is_signed_by_master(sig)
        THEN [val |-> IF is_signature_valid(cv, bytes, sig.hash)
                      THEN Ok ELSE Err(SignatureInvalid),
              calls |-> <<"is_signature_valid">>]
        ELSE LET parent == unwrap(sig.parent)
             IN  IF Certificate_verify(parent, bytes, sig.hash)
                 THEN [val |-> IF is_valid(cv, parent)
                               THEN Ok ELSE Err(ParentInvalid),
                       calls |-> <<"verify", "is_valid">>]
                 ELSE [val |-> Err(SignatureInvalid), calls |-> <<"verify">>]

\* Faulty variant: the parent is unwrapped without asking is_signed_by_master first.
self_validate_UnwrapFirst(self, cv) ==
    LET sig == self.signature
        bytes == ContentFingerprint(self.content)
        parent == unwrap(sig.parent)
    IN  IF parent = Panic
        THEN [val |-> Panic, calls |-> <<>>]
        ELSE IF is_valid(cv, parent)
             THEN [val |-> IF Certificate_verify(parent, bytes, sig.hash)
                           THEN Ok ELSE Err(SignatureInvalid),
                   calls |-> <<"is_valid", "verify">>]
             ELSE [val |-> Err(ParentInvalid), calls |-> <<"is_valid">>]

\* The result, and the calls made on the validator and the parent.
self_validate(self, cv) ==
    LET sig == self.signature
        bytes == ContentFingerprint(self.content)
    IN  IF is_signed_by_master(sig)
        THEN [val |-> IF is_signature_valid(cv, bytes, sig.hash)
                      THEN Ok ELSE Err(SignatureInvalid),
              calls |-> <<"is_signature_valid">>]
        ELSE LET parent == unwrap(sig.parent)
             IN  IF parent = Panic
                 THEN [val |-> Panic, calls |-> <<>>]
                 ELSE IF is_valid(cv, parent)
                      THEN [val |-> IF Certificate_verify(parent, bytes, sig.hash)
                                    THEN Ok ELSE Err(SignatureInvalid),
                            calls |-> <<"is_valid", "verify">>]
                      ELSE [val |-> Err(ParentInvalid), calls |-> <<"is_valid">>]

\* Faulty variant: asks the revoker about the parent certificate.
self_check_revoked_AsksRevoker(self, revoker) ==
    IF ~is_signed_by_master(self.signature)
         /\ unwrap(self.signature.parent).pk \in revoker
    THEN [val |-> Err("Revoked"), calls |-> <<"is_revoked">>]
    ELSE [val |-> Ok, calls |-> <<"is_revoked">>]

self_check_revoked(self, revoker) == [val |-> Ok, calls |-> <<>>]

---------------------------------------------------------------------------
(* The values the operations are given *)
\* Content of type Letter<&str>: the same string signed by each key.
InnerLetters == { with_private_key([str |-> "hello world"], k) : k \in Keys }
Contents == { [str |-> s] : s \in Strings } \cup InnerLetters
Fingerprints == { ContentFingerprint(c) : c \in Contents }
Hashes == { ed25519_sign(b, k) : b \in Fingerprints, k \in Keys }
Signatures ==
    { Signature_new(h) : h \in Hashes }
      \cup { Signature_with_parent(p, h) : p \in Certificates, h \in Hashes }
SameType(c, d) == IsLetter(c) = IsLetter(d)

NoLetter == [tag |-> "NoLetter"]
NoSigner == [tag |-> "NoSigner"]
Unit == [tag |-> "()"]

VARIABLES
    letter,     \* the Letter the last constructor returned, or NoLetter
    validator,  \* the Validator: [mpk, revoked]
    ret,        \* the last operation and its result: [op, val], and for
                \* self_check_revoked the revoker it was given: arg
    calls,      \* the calls the last operation made on its collaborators
    built,      \* how the letter was constructed: [ctor, content, signer]
    replaced    \* whether the content was assigned to after construction

vars == <<letter, validator, ret, calls, built, replaced>>

Init ==
    /\ letter = NoLetter
    /\ validator \in { [mpk |-> k, revoked |-> {}] : k \in Keys }
    /\ ret = Returned("init", Unit)
    /\ calls = <<>>
    /\ built = [ctor |-> "none", content |-> Unit, signer |-> NoSigner]
    /\ replaced = FALSE

\* The model follows one constructor call and the Letter it returns: a
\* constructor runs while none has run yet.
Fresh == built.ctor = "none"

New(content, signature) ==
    /\ Fresh
    /\ letter' = new(content, signature)
    /\ ret' = Returned("new", Unit)
    /\ calls' = <<>>
    /\ built' = [ctor |-> "new", content |-> content, signer |-> NoSigner]
    /\ replaced' = FALSE
    /\ UNCHANGED validator

WithPrivateKey(content, private_key) ==
    /\ Fresh
    /\ letter' = with_private_key(content, private_key)
    /\ ret' = Returned("with_private_key", Unit)
    /\ calls' = <<>>
    /\ built' = [ctor |-> "with_private_key", content |-> content,
                 signer |-> private_key]
    /\ replaced' = FALSE
    /\ UNCHANGED validator

WithCertificate(content, cert) ==
    LET res == with_certificate(content, cert)
    IN  /\ Fresh
        /\ letter' = IF res.tag = "Ok" THEN res.val ELSE NoLetter
        /\ ret' = Returned("with_certificate", res)
        /\ calls' = <<>>
        /\ built' = [ctor |-> "with_certificate", content |-> content,
                     signer |-> cert]
        /\ replaced' = FALSE
        /\ UNCHANGED validator

Get ==
    /\ letter # NoLetter
    /\ ret' = Returned("get", get(letter))
    /\ calls' = <<>>
    /\ UNCHANGED <<letter, validator, built, replaced>>

Deref ==
    /\ letter # NoLetter
    /\ ret' = Returned("deref", deref(letter))
    /\ calls' = <<>>
    /\ UNCHANGED <<letter, validator, built, replaced>>

FingerprintOp ==
    /\ letter # NoLetter
    /\ ret' = Returned("fingerprint", fingerprint(letter))
    /\ calls' = <<>>
    /\ UNCHANGED <<letter, validator, built, replaced>>

SelfValidate ==
    /\ letter # NoLetter
    /\ LET r == self_validate(letter, validator)
       IN  /\ ret' = Returned("self_validate", r.val)
           /\ calls' = r.calls
    /\ UNCHANGED <<letter, validator, built, replaced>>

SelfCheckRevoked(revoker) ==
    /\ letter # NoLetter
    /\ LET r == self_check_revoked(letter, revoker)
       IN  /\ ret' = [op |-> "self_check_revoked", val |-> r.val,
                      arg |-> revoker]
           /\ calls' = r.calls
    /\ UNCHANGED <<letter, validator, built, replaced>>

\* Faulty variant: the assignment rebuilds the Letter around the old hash and loses
\* the parent.
ReplaceContent_DropParent(c) ==
    /\ letter # NoLetter
    /\ SameType(c, letter.content)
    /\ letter' = new(c, Signature_new(letter.signature.hash))
    /\ replaced' = TRUE
    /\ ret' = Returned("replace_content", Unit)
    /\ calls' = <<>>
    /\ UNCHANGED <<validator, built>>

\* letter.content = c
ReplaceContent(c) ==
    /\ letter # NoLetter
    /\ SameType(c, letter.content)
    /\ letter' = [letter EXCEPT !.content = c]
    /\ replaced' = TRUE
    /\ ret' = Returned("replace_content", Unit)
    /\ calls' = <<>>
    /\ UNCHANGED <<validator, built>>

\* The revoker behind the validator learns of a revoked certificate.
Revoke(k) ==
    /\ k \notin validator.revoked
    /\ validator' = [validator EXCEPT !.revoked = @ \cup {k}]
    /\ ret' = Returned("revoke", Unit)
    /\ calls' = <<>>
    /\ UNCHANGED <<letter, built, replaced>>

Next ==
    \/ Fresh /\ \E c \in Contents, s \in Signatures : New(c, s)
    \/ Fresh /\ \E c \in Contents, k \in Keys : WithPrivateKey(c, k)
    \/ Fresh /\ \E c \in Contents, cert \in Certificates : WithCertificate(c, cert)
    \/ Get
    \/ Deref
    \/ FingerprintOp
    \/ SelfValidate
    \/ \E r \in Revokers : SelfCheckRevoked(r)
    \/ \E c \in Contents : ReplaceContent(c)
    \/ \E k \in Keys : Revoke(k)

Spec == Init /\ [][Next]_vars

---------------------------------------------------------------------------
(* Properties *)

Constructed == letter # NoLetter
SignedBytes == ContentFingerprint(built.content)
Validated == Constructed /\ ret.op = "self_validate"

\* C1: a letter made by with_private_key(C, priv) is master-signed, and
\* validates (Ok) under a validator that trusts the matching public key.
C1_PrivateKeyLetterValidates ==
    (Constructed /\ built.ctor = "with_private_key" /\ ~replaced
       /\ built.signer = validator.mpk)
    => /\ is_signed_by_master(letter.signature)
       /\ unwrap(letter.signature.parent) = Panic
       /\ (ret.op = "self_validate" => ret.val = Ok)

C1_Witness ==
    /\ Constructed /\ built.ctor = "with_private_key" /\ ~replaced
    /\ built.signer = validator.mpk
    /\ validator.revoked # {}
    /\ ret.op = "self_validate" /\ ret.val = Ok

\* C2 as stated: once the content of a letter made by with_private_key or
\* with_certificate differs from the content that was signed, validation
\* fails, and with SignatureInvalid when the letter is master-signed.
C2_AnyOtherContentFails ==
    (Validated /\ built.ctor \in {"with_private_key", "with_certificate"}
       /\ letter.content # built.content)
    => /\ ret.val # Ok
       /\ (is_signed_by_master(letter.signature)
             => ret.val = Err(SignatureInvalid))

\* C2 amended: once the content's fingerprint differs from the fingerprint
\* that was signed, validation fails, and with SignatureInvalid when the
\* letter is master-signed.
C2_OtherFingerprintFails ==
    (Validated /\ built.ctor \in {"with_private_key", "with_certificate"}
       /\ ContentFingerprint(letter.content) # SignedBytes)
    => /\ ret.val # Ok
       /\ (is_signed_by_master(letter.signature)
             => ret.val = Err(SignatureInvalid))

C2_Witness ==
    /\ Validated /\ built.ctor = "with_certificate"
    /\ ContentFingerprint(letter.content) # SignedBytes
    /\ is_valid(validator, built.signer)
    /\ ret.val = Err(SignatureInvalid)

\* C3: a letter made by with_certificate(C, cert) validates iff cert is
\* valid under the validator and cert verifies the letter's hash over
\* fingerprint(C).
C3_CertificateLetterValidIff ==
    (Validated /\ built.ctor = "with_certificate" /\ ~replaced)
    => (ret.val = Ok
          <=> /\ is_valid(validator, built.signer)
              /\ Certificate_verify(built.signer, SignedBytes,
                                    letter.signature.hash))

C3_Witness ==
    /\ Validated /\ built.ctor = "with_certificate" /\ ~replaced
    /\ ~is_signed_by_master(built.signer.signature)
    /\ ret.val = Ok

\* C4: with_certificate fails with SigningFailed exactly when the
\* certificate holds no private key, and then yields no Letter; otherwise it
\* yields a Letter with the content, the certificate as signature parent and
\* the certificate's signature over the content's fingerprint as hash.
C4_SigningFailedIffNoPrivateKey ==
    ret.op = "with_certificate"
    => /\ (ret.val = Err(SigningFailed)
             <=> Certificate_sign(built.signer, SignedBytes) = None)
       /\ (ret.val = Err(SigningFailed) <=> ~built.signer.priv)
       /\ (~built.signer.priv => ~Constructed /\ DOMAIN ret.val = {"tag", "err"})
       /\ (built.signer.priv
             => /\ Constructed
                /\ ret.val = OkWith(letter)
                /\ letter.content = built.content
                /\ letter.signature.parent = Some(built.signer)
                /\ Some(letter.signature.hash)
                     = Certificate_sign(built.signer, SignedBytes))

C4_Witness ==
    /\ ret.op = "with_certificate"
    /\ ~built.signer.priv
    /\ ret.val = Err(SigningFailed)
    /\ ~Constructed

\* The certificates above a signature, nearest first.
RECURSIVE ChainOf(_)
ChainOf(sig) ==
    IF sig.parent = None THEN <<>>
    ELSE <<sig.parent.val>> \o ChainOf(sig.parent.val.signature)

\* The key that has to have made the hash of link i of a chain: the next
\* certificate's, or the trusted master key at the top.
LinkKey(chain, i) ==
    IF i < Len(chain) THEN chain[i + 1].pk ELSE validator.mpk

\* Certificate i of the chain is not revoked and its own signature verifies.
CertLinkOk(chain, i) ==
    /\ chain[i].pk \notin validator.revoked
    /\ ed25519_verify(CertBytes(chain[i].pk), chain[i].signature.hash,
                      LinkKey(chain, i))

\* The letter's own hash verifies under the first key above it.
LetterLinkOk ==
    ed25519_verify(ContentFingerprint(letter.content), letter.signature.hash,
                   LinkKey(ChainOf(letter.signature), 0))

\* C5: a letter under a chain of certificates validates iff every link
\* verifies up to the trusted master key; a broken link at a certificate
\* makes the validation of the letter fail with ParentInvalid.
C5_ChainValidIffEveryLink ==
    Validated
    => LET chain == ChainOf(letter.signature)
       IN  /\ ret.val = Ok
                <=> /\ LetterLinkOk
                    /\ \A i \in 1..Len(chain) : CertLinkOk(chain, i)
           /\ (\E i \in 1..Len(chain) : ~CertLinkOk(chain, i))
                => ret.val = Err(ParentInvalid)

C5_Witness ==
    /\ Validated
    /\ LET chain == ChainOf(letter.signature)
       IN  /\ Len(chain) = MaxChain
           /\ CertLinkOk(chain, 1)
           /\ chain[Len(chain)].pk \in validator.revoked
           /\ LetterLinkOk
    /\ ret.val = Err(ParentInvalid)

\* C6: self_validate's outcome and the order of its checks.  Master-signed:
\* only the root-key check is made and decides between Ok and
\* SignatureInvalid.  Certificate-signed: an invalid parent gives
\* ParentInvalid without verifying; a valid parent's verify decides between
\* Ok and SignatureInvalid; the root-key check is not made.
C6_OutcomeOrder ==
    Validated
    => LET sig == letter.signature
           bytes == ContentFingerprint(letter.content)
       IN  IF sig.parent = None
           THEN /\ calls = <<"is_signature_valid">>
                /\ is_signature_valid(validator, bytes, sig.hash)
                     => ret.val = Ok
                /\ ~is_signature_valid(validator, bytes, sig.hash)
                     => ret.val = Err(SignatureInvalid)
           ELSE /\ ~is_valid(validator, sig.parent.val)
                     => ret.val = Err(ParentInvalid) /\ calls = <<"is_valid">>
                /\ is_valid(validator, sig.parent.val)
                     => /\ calls = <<"is_valid", "verify">>
                        /\ ret.val =
                             IF Certificate_verify(sig.parent.val, bytes, sig.hash)
                             THEN Ok ELSE Err(SignatureInvalid)

C6_Witness ==
    /\ Validated
    /\ letter.signature.parent # None
    /\ ~is_valid(validator, letter.signature.parent.val)
    /\ ~Certificate_verify(letter.signature.parent.val,
                           ContentFingerprint(letter.content),
                           letter.signature.hash)
    /\ is_signature_valid(validator, ContentFingerprint(letter.content),
                          letter.signature.hash)
    /\ ret.val = Err(ParentInvalid)

\* C7: self_check_revoked answers Ok whatever the letter and the revoker,
\* and makes no call on the revoker.
C7_NeverRevoked ==
    ret.op = "self_check_revoked" => ret.val = Ok /\ calls = <<>>

C7_Witness ==
    /\ ret.op = "self_check_revoked"
    /\ letter.signature.parent # None
    /\ letter.signature.parent.val.pk \in ret.arg
    /\ self_validate(letter, validator).val = Err(SignatureInvalid)
    /\ ret.val = Ok

\* C8: get and deref of a constructed letter both return the content the
\* constructor was given.
C8_ContentUnchangedBySigning ==
    (Constructed /\ ~replaced)
    => /\ get(letter) = built.content
       /\ deref(letter) = built.content
       /\ (ret.op \in {"get", "deref"} => ret.val = built.content)

C8_Witness ==
    /\ Constructed /\ ~replaced
    /\ built.ctor = "with_certificate"
    /\ IsLetter(built.content)
    /\ ret.op = "deref" /\ ret.val = built.content

\* No step on a constructed letter changes its signature, and self_validate
\* and self_check_revoked change neither the letter nor the validator.
C9_Step ==
    [][ Constructed
          => /\ letter' # NoLetter
             /\ letter'.signature = letter.signature
             /\ (ret'.op \in {"self_validate", "self_check_revoked"}
                   => letter' = letter /\ validator' = validator) ]_vars

\* The signature is the one the constructor made.
C9_AsConstructed ==
    Constructed
    => /\ built.ctor = "with_private_key"
            => letter.signature
                 = with_private_key(built.content, built.signer).signature
       /\ built.ctor = "with_certificate"
            => letter.signature
                 = with_certificate(built.content, built.signer).val.signature

\* C9: after construction the signature stays the one the constructor set,
\* whatever operations follow; self_validate and self_check_revoked also
\* leave the content and the validator as they were.
C9_SignatureFrame == C9_Step /\ []C9_AsConstructed

C9_Witness ==
    /\ Constructed /\ replaced
    /\ built.ctor = "with_certificate"
    /\ letter.content # built.content
    /\ letter.signature
         = with_certificate(built.content, built.signer).val.signature
    /\ ret.op = "self_validate"

\* C10: self_validate never panics on the parent: a letter that is not
\* master-signed has a parent, and the outcome is one of Ok,
\* SignatureInvalid, ParentInvalid.
C10_NoPanic ==
    /\ (Constructed /\ ~is_signed_by_master(letter.signature))
         => unwrap(letter.signature.parent) # Panic
    /\ ret.op = "self_validate"
         => ret.val \in {Ok, Err(SignatureInvalid), Err(ParentInvalid)}

C10_Witness ==
    /\ Validated
    /\ built.ctor = "new" /\ replaced
    /\ ~is_signed_by_master(letter.signature)
    /\ ret.val = Err(SignatureInvalid)

====
